---- MODULE Spec2Model ----
(***************************************************************************)
(* A model of the repository verification harness: the test modules of     *)
(* resources/repo_test.py with their execute_command helper, and the suite *)
(* runner that drives them (resources/repo_test_suite.py, used by          *)
(* tx_download/assignment_check.py).                                       *)
(*                                                                         *)
(* Python values are modelled as follows.  A str is a sequence of tokens   *)
(* (single characters where the code works on characters), a pathlib.Path  *)
(* is a sequence of components, a list is a sequence, and an optional      *)
(* value is None (<<>>) or Some(v) (<<v>>).  An object is a record holding *)
(* exactly the attributes its __init__ assigns, plus cls, the name of its  *)
(* class.  A call yields an outcome record: kind "return" with a value, or *)
(* kind "raise" with the name of the exception, together with the object,  *)
(* the run context and the operating-system environment as the call left   *)
(* them.                                                                   *)
(*                                                                         *)
(* SpecModule exercises one module on its own (construction, perform_test, *)
(* execute_command); Spec exercises a suite run.                           *)
(***************************************************************************)
EXTENDS Integers, Sequences, FiniteSets, TLC

VARIABLES self, ctor, registered, call, out, ncalls,
          modules, state, idx, results, ctx, report, invoked

vars == <<self, ctor, registered, call, out, ncalls,
          modules, state, idx, results, ctx, report, invoked>>

moduleVars == <<self, ctor, registered, call, out, ncalls>>
suiteVars == <<modules, state, idx, results, ctx, report, invoked>>

(***************************************************************************)
(* Bounds of the model.                                                    *)
(***************************************************************************)
MaxFileList == 2
MaxLines == 2
MaxTracked == 2
MaxDirFiles == 2
MaxCalls == 2
MaxModules == 3

(***************************************************************************)
(* Optional values and the argument a caller leaves out.                   *)
(***************************************************************************)
None == <<>>
Some(v) == <<v>>
Val(o) == o[1]
Omitted == <<>>
Given(v) == <<v>>
Arg(a, default) == IF a = Omitted THEN default ELSE a[1]

(***************************************************************************)
(* str methods.                                                            *)
(***************************************************************************)
NL == "\n"

RECURSIVE str_split(_, _)
str_split(s, sep) ==
    IF s = <<>> THEN << <<>> >>
    ELSE LET rest == str_split(Tail(s), sep)
         IN  IF Head(s) = sep
             THEN << <<>> >> \o rest
             ELSE << <<Head(s)>> \o Head(rest) >> \o Tail(rest)

str_splitlines(s) ==
    LET p == str_split(s, NL)
    IN  IF p[Len(p)] = <<>> THEN SubSeq(p, 1, Len(p) - 1) ELSE p

RECURSIVE str_join(_, _)
str_join(sep, parts) ==
    IF parts = <<>> THEN <<>>
    ELSE IF Len(parts) = 1 THEN parts[1]
    ELSE parts[1] \o <<sep>> \o str_join(sep, Tail(parts))

RECURSIVE str_replace(_, _, _)
str_replace(s, old, new) ==
    IF s = <<>> THEN <<>>
    ELSE <<IF Head(s) = old THEN new ELSE Head(s)>> \o str_replace(Tail(s), old, new)

IsSpace(c) == c \in {" ", NL}

RECURSIVE str_lstrip(_)
str_lstrip(s) ==
    IF s # <<>> /\ IsSpace(Head(s)) THEN str_lstrip(Tail(s)) ELSE s

RECURSIVE str_rstrip(_)
str_rstrip(s) ==
    IF s # <<>> /\ IsSpace(s[Len(s)]) THEN str_rstrip(SubSeq(s, 1, Len(s) - 1)) ELSE s

str_strip(s) == str_rstrip(str_lstrip(s))

str_prefix(s, n) == SubSeq(s, 1, IF Len(s) < n THEN Len(s) ELSE n)

(***************************************************************************)
(* pathlib.Path: the / operator and relative_to.                           *)
(***************************************************************************)
path_join(p, name) == Append(p, name)

path_str(p) == str_join("/", [i \in 1..Len(p) |-> <<p[i]>>])

IsPrefix(p, q) == Len(p) <= Len(q) /\ SubSeq(q, 1, Len(p)) = p

path_is_relative_to(p, root) == IsPrefix(root, p)

path_relative_to(p, root) == SubSeq(p, Len(root) + 1, Len(p))

(***************************************************************************)
(* Outcomes of a call.                                                     *)
(***************************************************************************)
Return(v, obj, rts, os) ==
    [kind |-> "return", value |-> v, exc |-> "", self |-> obj, rts |-> rts, os |-> os]

Raise(e, obj, rts, os) ==
    [kind |-> "raise", value |-> None, exc |-> e, self |-> obj, rts |-> rts, os |-> os]

(***************************************************************************)
(* The run context's reporting methods: each appends one line to the       *)
(* context's accumulating list of messages.                                *)
(***************************************************************************)
print(rts, text) ==
    [rts EXCEPT !.messages = Append(@, [level |-> "info", text |-> text])]

print_error(rts, text) ==
    [rts EXCEPT !.messages = Append(@, [level |-> "error", text |-> text])]

(***************************************************************************)
(* Constructors.                                                           *)
(***************************************************************************)
repo_test_default_abort_on_error_False == FALSE

repo_test_default_abort_on_error == TRUE

repo_test_init(abort_on_error, process_output_filename) ==
    [abort_on_error |-> Arg(abort_on_error, repo_test_default_abort_on_error),
     process_output_filename |-> Arg(process_output_filename, None)]

repo_test_new(abort_on_error, process_output_filename) ==
    [cls |-> "repo_test"] @@ repo_test_init(abort_on_error, process_output_filename)

file_exists_test_default_abort_on_error == TRUE

file_exists_test_new(repo_file_list, abort_on_error) ==
    [cls |-> "file_exists_test", repo_file_list |-> repo_file_list]
        @@ repo_test_init(Given(Arg(abort_on_error, file_exists_test_default_abort_on_error)),
                          Omitted)

make_test_default_abort_on_error == TRUE

make_test_new(make_rule, generate_output_file, make_output_filename, abort_on_error) ==
    LET generate == Arg(generate_output_file, TRUE)
        given == Arg(make_output_filename, None)
        filename == IF generate /\ given = None
                    THEN Some(str_replace(make_rule, " ", "_") \o <<".", "l", "o", "g">>)
                    ELSE given
    IN  [cls |-> "make_test", make_rule |-> make_rule]
            @@ repo_test_init(Given(Arg(abort_on_error, make_test_default_abort_on_error)),
                              Given(filename))

check_for_untracked_files_new(ignore_ok) ==
    [cls |-> "check_for_untracked_files", ignore_ok |-> Arg(ignore_ok, TRUE)]
        @@ repo_test_init(Omitted, Omitted)

check_for_max_repo_files_new(max_dir_files) ==
    [cls |-> "check_for_max_repo_files", max_dir_files |-> max_dir_files]
        @@ repo_test_init(Omitted, Omitted)

check_for_ignored_files_new(check_path) ==
    [cls |-> "check_for_ignored_files", check_path |-> Arg(check_path, None)]
        @@ repo_test_init(Omitted, Omitted)

check_for_uncommitted_files_new ==
    [cls |-> "check_for_uncommitted_files"] @@ repo_test_init(Omitted, Omitted)

sys_maxsize == "sys.maxsize"

check_number_of_files_new(max_files) ==
    [cls |-> "check_number_of_files", max_files |-> Arg(max_files, sys_maxsize)]
        @@ repo_test_init(Omitted, Omitted)

list_git_commits_new(check_path) ==
    [cls |-> "list_git_commits", check_path |-> Arg(check_path, None)]
        @@ repo_test_init(Omitted, Omitted)

module_name(obj) ==
    CASE obj.cls = "repo_test" -> "BASE MODULE"
      [] obj.cls = "file_exists_test" -> "File Check"
      [] obj.cls = "make_test" -> "Makefile"
      [] obj.cls = "check_for_untracked_files" -> "Check for untracked GIT files"
      [] obj.cls = "check_for_max_repo_files" -> "Check for max tracked repo files"
      [] obj.cls = "check_for_ignored_files" -> "Check for ignored GIT files"
      [] obj.cls = "check_for_uncommitted_files" -> "Check for uncommitted GIT files"
      [] obj.cls = "check_number_of_files" -> "Count files in repo dir"
      [] obj.cls = "list_git_commits" -> "List Git Commits"

(***************************************************************************)
(* The operating system as a call sees it: the paths that exist, whether   *)
(* a file can be opened for writing, whether the child can be launched,    *)
(* the lines the child prints and its exit code; and what the call leaves  *)
(* behind: the files written, the console, the children launched.          *)
(***************************************************************************)
os_path_exists(os, p) == p \in os.exists

os_makedirs(os, p) == [os EXCEPT !.exists = @ \cup {p}]

Truthy(fp) == fp # None

file_open_w(os, p) ==
    [os EXCEPT !.exists = @ \cup {p},
               !.content = (p :> <<>>) @@ @]

file_write(os, fp, line) ==
    [os EXCEPT !.content = (Val(fp) :> Append(@[Val(fp)], line)) @@ @]

sys_stdout_write(os, line) == [os EXCEPT !.stdout = Append(@, line)]

RECURSIVE execute_command_lines(_, _, _, _)
execute_command_lines(rts, os, fp, lines) ==
    IF lines = <<>> THEN os
    ELSE LET os1 == IF rts.print_to_stdout THEN sys_stdout_write(os, Head(lines)) ELSE os
             os2 == IF Truthy(fp) THEN file_write(os1, fp, Head(lines)) ELSE os1
         IN  execute_command_lines(rts, os2, fp, Tail(lines))

execute_command_run(obj, rts, os, proc_cmd, fp) ==
    LET cmd_str == str_join(" ", proc_cmd)
        message == <<"Executing the following command in directory:">>
                       \o path_str(rts.working_path) \o <<":">> \o cmd_str
        rts1 == print(rts, message)
        os1 == IF Truthy(fp) THEN file_write(os, fp, message \o <<NL>>) ELSE os
    IN  IF ~os1.launch_ok
        THEN Raise("FileNotFoundError", obj, rts1, os1)
        ELSE LET os2 == [os1 EXCEPT !.launched = @ + 1]
                 os3 == execute_command_lines(rts1, os2, fp, os2.lines)
             IN  Return(os3.returncode, obj, rts1, os3)

execute_command(obj, rts, os, proc_cmd, process_output_filename) ==
    LET filename == Arg(process_output_filename, None)
    IN  IF rts.log_dir # None /\ filename # None
        THEN IF "repo_test_suite" \notin DOMAIN obj
             THEN Raise("AttributeError", obj, rts, os)
             ELSE LET log_dir == Val(obj.repo_test_suite.log_dir)
                      os1 == IF ~os_path_exists(os, log_dir) THEN os_makedirs(os, log_dir) ELSE os
                  IN  IF "log_dir" \notin DOMAIN obj
                      THEN Raise("AttributeError", obj, rts, os1)
                      ELSE LET process_output_filepath == obj.log_dir \o <<"/">> \o Val(filename)
                           IN  IF ~os1.can_open
                               THEN Raise("OSError", obj, rts, os1)
                               ELSE LET os2 == file_open_w(os1, process_output_filepath)
                                        fp == Some(process_output_filepath)
                                    IN  IF ~Truthy(fp)
                                        THEN Return(-1, obj,
                                                    print_error(rts, <<"Error opening file for writing:", " ">>
                                                                         \o process_output_filepath),
                                                    os2)
                                        ELSE execute_command_run(obj,
                                                    print(rts, <<"Writing output to:", " ">>
                                                                   \o process_output_filepath),
                                                    os2, proc_cmd, fp)
        ELSE execute_command_run(obj, rts, os, proc_cmd, None)

(***************************************************************************)
(* The repository handle: what the version-control backend answers.  A     *)
(* git command's output is its lines joined by newlines, the last newline  *)
(* stripped.                                                               *)
(***************************************************************************)
git_output(names) == str_join(NL, names)

git_ls_files_others(repo) == git_output(repo.untracked)

git_ls_files(repo, relative_repo_path) == git_output(repo.tracked)

git_ls_files_ignored(repo, check_path) == git_output(repo.ignored[check_path])

git_status_suno(repo) == git_output(repo.status)

index_diff(repo) == repo.diff

iter_commits(repo, relative_path) == repo.commits[relative_path]

(***************************************************************************)
(* perform_test of each class.                                             *)
(***************************************************************************)
repo_test_perform_test(obj, rts, os) == Return(FALSE, obj, rts, os)

RECURSIVE file_exists_test_loop(_, _, _, _)
file_exists_test_loop(repo_file_list, rts, os, return_val) ==
    IF repo_file_list = <<>> THEN [rts |-> rts, return_val |-> return_val]
    ELSE LET file_path == path_join(rts.working_path, Head(repo_file_list))
             missing == ~os_path_exists(os, path_str(file_path))
             rts1 == IF missing
                     THEN print_error(rts, <<"File does not exist: ">> \o path_str(file_path))
                     ELSE rts
             rts2 == print(rts1, <<"File exists: ">> \o path_str(file_path))
         IN  file_exists_test_loop(Tail(repo_file_list), rts2, os,
                                   IF missing THEN FALSE ELSE return_val)

file_exists_test_perform_test(obj, rts, os) ==
    LET r == file_exists_test_loop(obj.repo_file_list, rts, os, TRUE)
    IN  Return(r.return_val, obj, r.rts, os)

make_test_perform_test_IgnoresExitCode(obj, rts, os) ==
    LET cmd == << <<"make">>, obj.make_rule >>
        r == execute_command(obj, rts, os, cmd, Omitted)
    IN  IF r.kind = "raise" THEN r
        ELSE Return(TRUE, r.self, r.rts, r.os)

make_test_perform_test(obj, rts, os) ==
    LET cmd == << <<"make">>, obj.make_rule >>
        r == execute_command(obj, rts, os, cmd, Omitted)
    IN  IF r.kind = "raise" THEN r
        ELSE IF r.value # 0 THEN Return(FALSE, r.self, r.rts, r.os)
        ELSE Return(TRUE, r.self, r.rts, r.os)

RECURSIVE print_error_each(_, _)
print_error_each(rts, files) ==
    IF files = <<>> THEN rts
    ELSE print_error_each(print_error(rts, <<"  ">> \o Head(files)), Tail(files))

check_for_untracked_files_perform_test(obj, rts, os) ==
    LET untracked_files == git_ls_files_others(rts.repo)
    IN  IF untracked_files # <<>>
        THEN LET rts1 == print_error(rts, <<"Untracked files found in repository:">>)
                 files == str_splitlines(untracked_files)
             IN  Return(FALSE, obj, print_error_each(rts1, files), os)
        ELSE Return(TRUE, obj, print(rts, <<"No untracked files found in repository">>), os)

check_for_max_repo_files_perform_test(obj, rts, os) ==
    LET tracked_files == str_split(git_ls_files(rts.repo, rts.relative_repo_path), NL)
        n_tracked_files == Len(tracked_files)
        rts1 == print(rts, <<ToString(n_tracked_files), " Tracked git files in ">>
                               \o path_str(rts.relative_repo_path))
    IN  IF n_tracked_files > obj.max_dir_files
        THEN Return(FALSE, obj, print_error(rts1, <<"  Too many tracked files">>), os)
        ELSE Return(TRUE, obj, rts1, os)

check_for_ignored_files_perform_test(obj, rts, os) ==
    LET obj1 == IF obj.check_path = None
                THEN [obj EXCEPT !.check_path = Some(rts.working_path)]
                ELSE obj
        rts1 == print(rts, <<"Checking for ignored files at ">> \o path_str(Val(obj1.check_path)))
        ignored_files == git_ls_files_ignored(rts.repo, Val(obj1.check_path))
    IN  IF ignored_files # <<>>
        THEN LET rts2 == print_error(rts1, <<"Ignored files found in repository:">>)
                 files == str_splitlines(ignored_files)
             IN  Return(FALSE, obj1, print_error_each(rts2, files), os)
        ELSE Return(TRUE, obj1, print(rts1, <<"No ignored files found in repository">>), os)

check_for_uncommitted_files_perform_test(obj, rts, os) ==
    LET uncommitted_changes == index_diff(rts.repo)
        modified_files == SelectSeq([i \in 1..Len(uncommitted_changes) |-> uncommitted_changes[i]],
                                    LAMBDA item : item.change_type = "M")
        paths == [i \in 1..Len(modified_files) |-> modified_files[i].a_path]
    IN  IF paths # <<>>
        THEN LET rts1 == print_error(rts, <<"Uncommitted files found in repository:">>)
             IN  Return(FALSE, obj, print_error_each(rts1, paths), os)
        ELSE Return(TRUE, obj, print(rts, <<"No uncommitted files found in repository">>), os)

check_number_of_files_perform_test(obj, rts, os) ==
    LET uncommitted_files == git_status_suno(rts.repo)
    IN  IF uncommitted_files # <<>>
        THEN LET rts1 == print_error(rts, <<"Uncommitted files found in repository:">>)
                 files == str_splitlines(uncommitted_files)
             IN  Return(FALSE, obj, print_error_each(rts1, files), os)
        ELSE Return(TRUE, obj, print(rts, <<"No uncommitted files found in repository">>), os)

strftime(dt) == <<dt.date, " ", dt.time>>

RECURSIVE list_git_commits_loop(_, _)
list_git_commits_loop(os, commits) ==
    IF commits = <<>> THEN os
    ELSE LET commit == Head(commits)
             commit_hash == str_prefix(commit.hexsha, 7)
             commit_message == str_strip(commit.message)
             commit_date == strftime(commit.committed_datetime)
         IN  list_git_commits_loop(
                 sys_stdout_write(os, commit_hash \o <<" - ">> \o commit_date \o <<" - ">>
                                          \o commit_message \o <<NL>>),
                 Tail(commits))

list_git_commits_perform_test(obj, rts, os) ==
    LET obj1 == IF obj.check_path = None
                THEN [obj EXCEPT !.check_path = Some(rts.working_path)]
                ELSE obj
    IN  IF ~path_is_relative_to(Val(obj1.check_path), rts.repo_root_path)
        THEN Raise("ValueError", obj1, rts, os)
        ELSE LET relative_path == path_relative_to(Val(obj1.check_path), rts.repo_root_path)
                 rts1 == print(rts, <<"Checking for commits at ">> \o path_str(relative_path))
                 commits == iter_commits(rts.repo, relative_path)
             IN  Return(TRUE, obj1, rts1, list_git_commits_loop(os, commits))

perform_test(obj, rts, os) ==
    CASE obj.cls = "repo_test" -> repo_test_perform_test(obj, rts, os)
      [] obj.cls = "file_exists_test" -> file_exists_test_perform_test(obj, rts, os)
      [] obj.cls = "make_test" -> make_test_perform_test(obj, rts, os)
      [] obj.cls = "check_for_untracked_files" -> check_for_untracked_files_perform_test(obj, rts, os)
      [] obj.cls = "check_for_max_repo_files" -> check_for_max_repo_files_perform_test(obj, rts, os)
      [] obj.cls = "check_for_ignored_files" -> check_for_ignored_files_perform_test(obj, rts, os)
      [] obj.cls = "check_for_uncommitted_files" -> check_for_uncommitted_files_perform_test(obj, rts, os)
      [] obj.cls = "check_number_of_files" -> check_number_of_files_perform_test(obj, rts, os)
      [] obj.cls = "list_git_commits" -> list_git_commits_perform_test(obj, rts, os)

(***************************************************************************)
(* The inputs: the arguments a caller may pass, the run contexts and the   *)
(* environments a call may meet.                                           *)
(***************************************************************************)
RepoRoot == <<"repo">>
WorkingPaths == {<<"repo", "d1">>, <<"repo", "d2">>}
Paths == WorkingPaths \cup {<<"tmp">>}
RelPaths == {path_relative_to(p, RepoRoot) : p \in WorkingPaths}
LogDir == <<"logs">>

FileName(i) == "f" \o ToString(i)
Files == {FileName(i) : i \in 1..MaxFileList}
FileLists == UNION {[1..n -> Files] : n \in 0..MaxFileList}

MakeRules == {<<"c">>, <<"a", " ", "b">>}
ReturnCodes == {0, 1}
AbortArgs == {Omitted, Given(TRUE), Given(FALSE)}

Name(i) == <<"n", ToString(i)>>
NameList(k) == [i \in 1..k |-> Name(i)]
NameLists == {NameList(k) : k \in 0..MaxTracked}

Line(i) == <<"l", ToString(i), NL>>
LineSeqs == {[i \in 1..k |-> Line(i)] : k \in 0..MaxLines}

Commit == [hexsha |-> <<"0", "1", "2", "3", "4", "5", "6", "7", "8">>,
           message |-> <<" ", "m", NL>>,
           committed_datetime |-> [date |-> "2024-01-01", time |-> "00:00:00"]]

DefaultRepo ==
    [untracked |-> <<>>, tracked |-> <<>>, ignored |-> [p \in Paths |-> <<>>],
     status |-> <<>>, diff |-> <<>>, commits |-> [p \in RelPaths |-> <<>>]]

Repos(cls) ==
    CASE cls = "check_for_untracked_files" ->
            {[DefaultRepo EXCEPT !.untracked = n] : n \in NameLists}
      [] cls = "check_for_max_repo_files" ->
            {[DefaultRepo EXCEPT !.tracked = n] : n \in NameLists}
      [] cls = "check_for_ignored_files" ->
            {[DefaultRepo EXCEPT !.ignored = f] : f \in [Paths -> {NameList(0), NameList(1)}]}
      [] cls = "check_for_uncommitted_files" ->
            {[DefaultRepo EXCEPT !.diff = d] :
                d \in {<<>>,
                       <<[a_path |-> Name(1), change_type |-> "D"]>>,
                       <<[a_path |-> Name(1), change_type |-> "D"],
                         [a_path |-> Name(2), change_type |-> "M"]>>}}
      [] cls = "check_number_of_files" ->
            {[DefaultRepo EXCEPT !.status = n] : n \in NameLists}
      [] cls = "list_git_commits" ->
            {[DefaultRepo EXCEPT !.commits = f] : f \in [RelPaths -> {<<>>, <<Commit>>}]}
      [] OTHER -> {DefaultRepo}

Contexts(cls) ==
    {[working_path |-> wp,
      repo_root_path |-> RepoRoot,
      relative_repo_path |-> path_relative_to(wp, RepoRoot),
      log_dir |-> ld,
      print_to_stdout |-> ps,
      repo |-> r,
      messages |-> <<>>] :
        wp \in WorkingPaths,
        ld \in IF cls \in {"make_test", "repo_test"} THEN {None, Some(LogDir)} ELSE {None},
        ps \in IF cls \in {"make_test", "repo_test"} THEN BOOLEAN ELSE {FALSE},
        r \in Repos(cls)}

DefaultOs ==
    [exists |-> {}, can_open |-> TRUE, launch_ok |-> TRUE, lines |-> <<>>, returncode |-> 0,
     content |-> <<>>, stdout |-> <<>>, launched |-> 0]

OsEnvs(cls, rts) ==
    CASE cls = "file_exists_test" ->
            {[DefaultOs EXCEPT !.exists = {path_str(path_join(rts.working_path, f)) : f \in S}] :
                S \in SUBSET Files}
      [] cls \in {"make_test", "repo_test"} ->
            {[DefaultOs EXCEPT !.can_open = co, !.lines = ls, !.returncode = rc] :
                co \in IF rts.log_dir = None THEN {TRUE} ELSE BOOLEAN,
                ls \in LineSeqs, rc \in ReturnCodes}
            \cup {[DefaultOs EXCEPT !.can_open = co, !.launch_ok = FALSE] :
                co \in IF rts.log_dir = None THEN {TRUE} ELSE BOOLEAN}
      [] OTHER -> {DefaultOs}

(***************************************************************************)
(* The state after start-up: no module constructed, no suite assembled.    *)
(***************************************************************************)
Init ==
    /\ self = None
    /\ ctor = None
    /\ registered = None
    /\ call = None
    /\ out = None
    /\ ncalls = 0
    /\ modules = <<>>
    /\ state = "Pending"
    /\ idx = 0
    /\ results = <<>>
    /\ ctx = None
    /\ report = None
    /\ invoked = <<>>

(***************************************************************************)
(* One test module on its own: its construction, and calls of its          *)
(* perform_test and of execute_command with the contexts above.            *)
(***************************************************************************)
ConstructRepoTest ==
    /\ self = None
    /\ \E a \in AbortArgs, f \in {Omitted, Given(Some(<<"o", ".", "l", "o", "g">>))} :
         /\ self' = Some(repo_test_new(a, f))
         /\ registered' = Some(repo_test_new(a, f))
         /\ ctor' = Some([cls |-> "repo_test", abort_on_error |-> a])
    /\ UNCHANGED <<call, out, ncalls>>
    /\ UNCHANGED suiteVars

ConstructFileExistsTest ==
    /\ self = None
    /\ \E l \in FileLists, a \in AbortArgs :
         /\ self' = Some(file_exists_test_new(l, a))
         /\ registered' = Some(file_exists_test_new(l, a))
         /\ ctor' = Some([cls |-> "file_exists_test", abort_on_error |-> a])
    /\ UNCHANGED <<call, out, ncalls>>
    /\ UNCHANGED suiteVars

ConstructMakeTest ==
    /\ self = None
    /\ \E r \in MakeRules, g \in {Omitted, Given(FALSE)}, a \in AbortArgs :
         /\ self' = Some(make_test_new(r, g, Omitted, a))
         /\ registered' = Some(make_test_new(r, g, Omitted, a))
         /\ ctor' = Some([cls |-> "make_test", abort_on_error |-> a])
    /\ UNCHANGED <<call, out, ncalls>>
    /\ UNCHANGED suiteVars

ConstructCheckForUntrackedFiles ==
    /\ self = None
    /\ self' = Some(check_for_untracked_files_new(Omitted))
    /\ registered' = Some(check_for_untracked_files_new(Omitted))
    /\ ctor' = Some([cls |-> "check_for_untracked_files", abort_on_error |-> Omitted])
    /\ UNCHANGED <<call, out, ncalls>>
    /\ UNCHANGED suiteVars

ConstructCheckForMaxRepoFiles ==
    /\ self = None
    /\ \E m \in 0..MaxDirFiles :
         /\ self' = Some(check_for_max_repo_files_new(m))
         /\ registered' = Some(check_for_max_repo_files_new(m))
         /\ ctor' = Some([cls |-> "check_for_max_repo_files", abort_on_error |-> Omitted])
    /\ UNCHANGED <<call, out, ncalls>>
    /\ UNCHANGED suiteVars

ConstructCheckForIgnoredFiles ==
    /\ self = None
    /\ \E c \in {Omitted} \cup {Given(Some(p)) : p \in Paths} :
         /\ self' = Some(check_for_ignored_files_new(c))
         /\ registered' = Some(check_for_ignored_files_new(c))
         /\ ctor' = Some([cls |-> "check_for_ignored_files", abort_on_error |-> Omitted])
    /\ UNCHANGED <<call, out, ncalls>>
    /\ UNCHANGED suiteVars

ConstructCheckForUncommittedFiles ==
    /\ self = None
    /\ self' = Some(check_for_uncommitted_files_new)
    /\ registered' = Some(check_for_uncommitted_files_new)
    /\ ctor' = Some([cls |-> "check_for_uncommitted_files", abort_on_error |-> Omitted])
    /\ UNCHANGED <<call, out, ncalls>>
    /\ UNCHANGED suiteVars

ConstructCheckNumberOfFiles ==
    /\ self = None
    /\ self' = Some(check_number_of_files_new(Omitted))
    /\ registered' = Some(check_number_of_files_new(Omitted))
    /\ ctor' = Some([cls |-> "check_number_of_files", abort_on_error |-> Omitted])
    /\ UNCHANGED <<call, out, ncalls>>
    /\ UNCHANGED suiteVars

ConstructListGitCommits ==
    /\ self = None
    /\ \E c \in {Omitted} \cup {Given(Some(p)) : p \in Paths} :
         /\ self' = Some(list_git_commits_new(c))
         /\ registered' = Some(list_git_commits_new(c))
         /\ ctor' = Some([cls |-> "list_git_commits", abort_on_error |-> Omitted])
    /\ UNCHANGED <<call, out, ncalls>>
    /\ UNCHANGED suiteVars

PerformTest ==
    /\ self # None
    /\ ncalls < MaxCalls
    /\ \E rts \in Contexts(Val(self).cls) :
         \E os \in OsEnvs(Val(self).cls, rts) :
            LET r == perform_test(Val(self), rts, os)
            IN  /\ call' = Some([op |-> "perform_test", self |-> Val(self), rts |-> rts,
                                 os |-> os, process_output_filename |-> Omitted])
                /\ out' = Some(r)
                /\ self' = Some(r.self)
    /\ ncalls' = ncalls + 1
    /\ UNCHANGED <<ctor, registered>>
    /\ UNCHANGED suiteVars

ExecuteCommand ==
    /\ self # None
    /\ Val(self).cls \in {"make_test", "repo_test"}
    /\ ncalls < MaxCalls
    /\ \E rts \in Contexts(Val(self).cls) :
         \E os \in OsEnvs(Val(self).cls, rts) :
            \E f \in {Omitted, Given(Val(self).process_output_filename)} :
                LET r == execute_command(Val(self), rts, os, << <<"make">>, <<"c">> >>, f)
                IN  /\ call' = Some([op |-> "execute_command", self |-> Val(self), rts |-> rts,
                                     os |-> os, process_output_filename |-> f])
                    /\ out' = Some(r)
                    /\ self' = Some(r.self)
    /\ ncalls' = ncalls + 1
    /\ UNCHANGED <<ctor, registered>>
    /\ UNCHANGED suiteVars

ModuleNext ==
    \/ ConstructRepoTest
    \/ ConstructFileExistsTest
    \/ ConstructMakeTest
    \/ ConstructCheckForUntrackedFiles
    \/ ConstructCheckForMaxRepoFiles
    \/ ConstructCheckForIgnoredFiles
    \/ ConstructCheckForUncommittedFiles
    \/ ConstructCheckNumberOfFiles
    \/ ConstructListGitCommits
    \/ PerformTest
    \/ ExecuteCommand

SpecModule == Init /\ [][ModuleNext]_vars

(***************************************************************************)
(* The suite runner: the suite is built with its run context, modules are  *)
(* registered in order, and run_tests invokes them one after the other,    *)
(* records each verdict, applies the abort policy and reports.             *)
(*   state: Pending, Running, Aborted, Completed, or Fatal after a harness *)
(*          error (an exception out of a module)                           *)
(*   idx: the number of modules invoked so far                             *)
(*   invoked: for each invocation, the module's index and the environment  *)
(*          it met                                                         *)
(***************************************************************************)
SuiteContexts ==
    {[working_path |-> <<"repo", "d1">>,
      repo_root_path |-> RepoRoot,
      relative_repo_path |-> <<"d1">>,
      log_dir |-> ld,
      print_to_stdout |-> TRUE,
      repo |-> DefaultRepo,
      messages |-> <<>>] : ld \in {None, Some(LogDir)}}

BuildTests ==
    {file_exists_test_new(<<FileName(1)>>, a) : a \in {Omitted, Given(FALSE)}}
        \cup {make_test_new(<<"c">>, Omitted, Omitted, Given(FALSE)),
              check_for_max_repo_files_new(1),
              list_git_commits_new(Omitted),
              list_git_commits_new(Given(Some(<<"tmp">>)))}

RunRepos(cls) ==
    IF cls = "check_for_max_repo_files"
    THEN {[DefaultRepo EXCEPT !.tracked = n] : n \in NameLists}
    ELSE {DefaultRepo}

RunEnvs(cls, rts) ==
    CASE cls = "file_exists_test" ->
            {[DefaultOs EXCEPT !.exists = {path_str(path_join(rts.working_path, f)) : f \in S}] :
                S \in {{}, {FileName(1)}}}
      [] cls = "make_test" ->
            {[DefaultOs EXCEPT !.lines = <<Line(1)>>, !.returncode = rc] : rc \in ReturnCodes}
                \cup {[DefaultOs EXCEPT !.launch_ok = FALSE]}
      [] OTHER -> {DefaultOs}

ShouldAbort_AnyFailure(verdict, abort_on_error) == ~verdict

ShouldAbort(verdict, abort_on_error) == ~verdict /\ abort_on_error

ExecutionResult(obj, verdict) ==
    [name |-> module_name(obj), verdict |-> verdict, transcript |-> obj.process_output_filename]

OverallVerdict_LastOnly(recorded, registeredCount) ==
    /\ recorded # <<>> => recorded[Len(recorded)].verdict
    /\ Len(recorded) = registeredCount

OverallVerdict(recorded, registeredCount) ==
    /\ \A i \in 1..Len(recorded) : recorded[i].verdict
    /\ Len(recorded) = registeredCount

SummaryStatus(i) ==
    IF i <= Len(results) THEN (IF results[i].verdict THEN "PASS" ELSE "FAIL")
    ELSE IF state = "Fatal" /\ i = idx THEN "ERROR"
    ELSE "SKIPPED"

Summary ==
    [i \in 1..Len(modules) |-> [name |-> module_name(modules[i]), status |-> SummaryStatus(i)]]

BuildTestSuite ==
    /\ ctx = None
    /\ \E rts \in SuiteContexts : ctx' = Some(rts)
    /\ UNCHANGED <<modules, state, idx, results, report, invoked>>
    /\ UNCHANGED moduleVars

AddMakeTest ==
    /\ ctx # None
    /\ state = "Pending"
    /\ Len(modules) < MaxModules
    /\ \E r \in MakeRules : modules' = Append(modules, make_test_new(r, Omitted, Omitted, Omitted))
    /\ UNCHANGED <<state, idx, results, ctx, report, invoked>>
    /\ UNCHANGED moduleVars

AddBuildTest ==
    /\ ctx # None
    /\ state = "Pending"
    /\ Len(modules) < MaxModules
    /\ \E m \in BuildTests : modules' = Append(modules, m)
    /\ UNCHANGED <<state, idx, results, ctx, report, invoked>>
    /\ UNCHANGED moduleVars

RunTestsStart ==
    /\ ctx # None
    /\ state = "Pending"
    /\ state' = IF modules = <<>> THEN "Completed" ELSE "Running"
    /\ UNCHANGED <<modules, idx, results, ctx, report, invoked>>
    /\ UNCHANGED moduleVars

RunTestsStep ==
    /\ state = "Running"
    /\ LET i == idx + 1
           m == modules[i]
       IN  \E repo \in RunRepos(m.cls) :
             \E os \in RunEnvs(m.cls, Val(ctx)) :
               LET r == perform_test(m, [Val(ctx) EXCEPT !.repo = repo], os)
               IN  /\ idx' = i
                   /\ invoked' = Append(invoked, [index |-> i, os |-> os])
                   /\ modules' = [modules EXCEPT ![i] = r.self]
                   /\ IF r.kind = "raise"
                      THEN /\ state' = "Fatal"
                           /\ results' = results
                           /\ ctx' = Some(print_error(r.rts, <<"Harness error: ", r.exc>>))
                      ELSE /\ results' = Append(results, ExecutionResult(m, r.value))
                           /\ ctx' = Some(r.rts)
                           /\ state' = IF ShouldAbort(r.value, m.abort_on_error) THEN "Aborted"
                                       ELSE IF i = Len(modules) THEN "Completed"
                                       ELSE "Running"
    /\ UNCHANGED report
    /\ UNCHANGED moduleVars

RunTestsReport ==
    /\ state \in {"Completed", "Aborted", "Fatal"}
    /\ report = None
    /\ LET overall == OverallVerdict(results, Len(modules))
       IN  report' = Some([lines |-> Summary,
                           overall |-> overall,
                           exit_code |-> IF overall THEN 0 ELSE 1])
    /\ UNCHANGED <<modules, state, idx, results, ctx, invoked>>
    /\ UNCHANGED moduleVars

Next ==
    \/ BuildTestSuite
    \/ AddMakeTest
    \/ AddBuildTest
    \/ RunTestsStart
    \/ RunTestsStep
    \/ RunTestsReport

Spec == Init /\ [][Next]_vars

(***************************************************************************)
(* Properties of one module (checked under SpecModule).                    *)
(***************************************************************************)
Performed == out # None /\ Val(call).op = "perform_test"
PerformedBy(cls) == Performed /\ Val(call).self.cls = cls
Returned == Val(out).kind = "return"
Emitted == Val(out).rts.messages
Count(seq, Test(_)) == Cardinality({i \in 1..Len(seq) : Test(seq[i])})
TranscriptRequested ==
    /\ out # None
    /\ Val(call).rts.log_dir # None
    /\ Val(call).self.process_output_filename # None
    /\ \/ Val(call).op = "perform_test" /\ Val(call).self.cls = "make_test"
       \/ /\ Val(call).op = "execute_command"
          /\ Val(call).process_output_filename = Given(Val(call).self.process_output_filename)
TranscriptPath ==
    path_str(Val(Val(call).rts.log_dir)) \o <<"/">> \o Val(Val(call).self.process_output_filename)

\* C4 as stated: a file-existence, commit-history or other non-build check built
\* without an abort_on_error argument has abort_on_error false; only the build-rule
\* module defaults to abort-on-error.
C4_AsStated ==
    (self # None /\ Val(ctor).abort_on_error = Omitted /\ Val(ctor).cls # "repo_test")
        => (Val(self).abort_on_error <=> Val(ctor).cls = "make_test")

\* C4 amended: every module class built without an abort_on_error argument has
\* abort_on_error true, the non-build checks like the build-rule module, and keeps
\* it over its calls.
C4_DefaultIsAbort ==
    (self # None /\ Val(ctor).abort_on_error = Omitted) => Val(self).abort_on_error = TRUE

C4_Witness ==
    /\ PerformedBy("file_exists_test")
    /\ Val(ctor).abort_on_error = Omitted
    /\ Returned /\ Val(out).value = FALSE
    /\ Val(self).abort_on_error = TRUE

\* C5: a command that prints N lines and exits 0, run with a transcript requested
\* (a log directory set, the module holding an output filename), returns 0 and
\* leaves a transcript file holding exactly those N lines in order.
C5_TranscriptRoundTrip ==
    (/\ TranscriptRequested
     /\ Val(call).os.can_open /\ Val(call).os.launch_ok /\ Val(call).os.returncode = 0)
        => /\ Returned
           /\ Val(out).value = (IF Val(call).op = "perform_test" THEN TRUE ELSE 0)
           /\ TranscriptPath \in DOMAIN Val(out).os.content
           /\ Val(out).os.content[TranscriptPath] = Val(call).os.lines

\* C6: when the transcript file cannot be opened for writing, execute_command
\* reports an error through the run context, returns a negative code and never
\* launches the child.
C6_OpenFailureIsReported ==
    (/\ TranscriptRequested
     /\ Val(call).op = "execute_command"
     /\ ~Val(call).os.can_open)
        => /\ Returned
           /\ Val(out).value < 0
           /\ \E i \in 1..Len(Emitted) : Emitted[i].level = "error"
           /\ Val(out).os.launched = 0

\* C7: whenever perform_test returns false, the module has emitted at least one
\* line through the context's print or print_error before returning.
C7_FalseIsExplained ==
    (Performed /\ Returned /\ Val(out).value = FALSE) => Len(Emitted) >= 1

\* C8: the file-existence verdict is the AND of "path exists" over the whole
\* list; a missing path gets exactly one error line naming it (per listing) and is
\* never reported as existing; an existing path gets no error line.
C8_FileStatusMatches ==
    (PerformedBy("file_exists_test") /\ Returned) =>
        LET files == Val(call).self.repo_file_list
            pathOf(f) == path_str(path_join(Val(call).rts.working_path, f))
            present(f) == pathOf(f) \in Val(call).os.exists
            errors(f) == Count(Emitted, LAMBDA m : m.level = "error"
                                   /\ m.text = <<"File does not exist: ">> \o pathOf(f))
            exists(f) == Count(Emitted, LAMBDA m : m.level = "info"
                                   /\ m.text = <<"File exists: ">> \o pathOf(f))
            listed(f) == Count(files, LAMBDA g : g = f)
        IN  /\ Val(out).value = (\A i \in 1..Len(files) : present(files[i]))
            /\ \A i \in 1..Len(files) :
                 IF present(files[i])
                 THEN errors(files[i]) = 0
                 ELSE errors(files[i]) = listed(files[i]) /\ exists(files[i]) = 0

\* C9: the tracked-file-count verdict is true exactly when the number of tracked
\* paths is at most the configured maximum, zero tracked paths and a maximum of
\* zero included.
C9_CountWithinMaximum ==
    (PerformedBy("check_for_max_repo_files") /\ Returned) =>
        (Val(out).value <=> Len(Val(call).rts.repo.tracked) <= Val(call).self.max_dir_files)

\* C10: perform_test leaves the module's configuration as it was at registration,
\* so a module registered without a path works on the path of the context it is
\* invoked with.
C10_ConfigurationUnchanged ==
    Performed =>
        /\ Val(self) = Val(registered)
        /\ (Val(registered).cls = "check_for_ignored_files"
              /\ Val(registered).check_path = None /\ Returned)
             => Emitted[1].text = <<"Checking for ignored files at ">>
                                      \o path_str(Val(call).rts.working_path)

(***************************************************************************)
(* Properties of a suite run (checked under Spec).                         *)
(***************************************************************************)
AbortPoint(j) == ~results[j].verdict /\ modules[j].abort_on_error
AbortPoints == {j \in 1..Len(results) : AbortPoint(j)}
Finished == state \in {"Completed", "Aborted"}

\* C1: run_tests invokes the modules of a prefix of the registered list, in
\* registration order and each once; the prefix ends exactly at the first module
\* whose verdict is false and whose abort_on_error is set, or at the end of the list
\* when there is none, and nothing after that point is invoked.
C1_PrefixUpToFirstAbort ==
    /\ Len(invoked) = idx
    /\ idx <= Len(modules)
    /\ \A k \in 1..Len(invoked) : invoked[k].index = k
    /\ \A j \in AbortPoints : j = idx
    /\ state = "Running" => AbortPoints = {} /\ idx < Len(modules)
    /\ Finished => idx = (IF AbortPoints = {} THEN Len(modules)
                          ELSE CHOOSE j \in AbortPoints : \A k \in AbortPoints : j <= k)

C1_Witness ==
    /\ state = "Aborted"
    /\ report # None
    /\ Len(modules) = 3
    /\ idx = 2
    /\ ~results[1].verdict /\ ~modules[1].abort_on_error

\* C2: when run_tests has finished, completed or aborted, the overall verdict is
\* true exactly when every executed module's verdict is true; one false verdict, or
\* one module skipped by an abort, makes it false.
C2_OverallIsConjunction ==
    (Finished /\ report # None) =>
        /\ Val(report).overall <=> (\A j \in 1..Len(results) : results[j].verdict)
        /\ Len(results) < Len(modules) => ~Val(report).overall

C2_Witness ==
    /\ state = "Completed"
    /\ report # None
    /\ Len(modules) = 3
    /\ ~results[1].verdict /\ results[2].verdict /\ results[3].verdict
    /\ ~Val(report).overall

\* C3: when a build-rule module with abort_on_error set fails on a non-zero exit
\* code and other modules follow it, none of them is invoked, the results recorded
\* up to the abort are kept, and the summary has one line per registered module, in
\* registration order, with every module after the abort point SKIPPED, not FAILED.
C3_FailedBuildSkipsTheRest ==
    \A j \in 1..Len(invoked) :
        (/\ modules[j].cls = "make_test"
         /\ modules[j].abort_on_error
         /\ invoked[j].os.launch_ok
         /\ invoked[j].os.returncode # 0
         /\ j < Len(modules))
            => /\ idx = j
               /\ state = "Aborted"
               /\ Len(results) = j
               /\ ~results[j].verdict
               /\ report # None =>
                    LET lines == Val(report).lines
                    IN  /\ Len(lines) = Len(modules)
                        /\ \A i \in 1..Len(modules) : lines[i].name = module_name(modules[i])
                        /\ \A i \in 1..j :
                             lines[i].status = (IF results[i].verdict THEN "PASS" ELSE "FAIL")
                        /\ \A i \in (j + 1)..Len(modules) : lines[i].status = "SKIPPED"

C3_Witness ==
    /\ state = "Aborted"
    /\ report # None
    /\ Len(modules) = 3
    /\ idx = 2
    /\ modules[2].cls = "make_test"
    /\ invoked[2].os.returncode = 1
    /\ modules[3].cls = "file_exists_test"
    /\ Val(report).lines[1].status = "PASS"
    /\ Val(report).lines[3].status = "SKIPPED"

====
